---- MODULE Spec2Model ----
(***************************************************************************)
(* Model of the dotfiles provisioning scripts:                             *)
(*   scripts/setup.py           create_symlinks, the step functions, main   *)
(*   scripts/setup_mise.py      update_fish_config, main                    *)
(* The filesystem is modelled per path: each declared link target, its     *)
(* "<target>.backup" sibling and the ~/.config parent directory.            *)
(***************************************************************************)
EXTENDS Integers, Sequences, FiniteSets, TLC

\* ---------------------------------------------------------------- bounds
\* number of consecutive create_symlinks calls made by the driver
MaxRuns == 3
\* number of consecutive update_fish_config calls made by the driver
MaxCalls == 3
\* longest initial content of the Fish config file, in tokens
MaxLen == 4

\* ------------------------------------------------------- link declarations
\* setup.py:199-208 declares six mappings in this order: ghostty, fish,
\* starship, nvim, brewfile (all under ~/.config) and tmux/tmux.conf (under
\* ~).  The mappings touch pairwise distinct paths; the model keeps one of
\* each parent, in the declared order.
symlinks == <<"fish", "tmux/tmux.conf">>

Rels == {symlinks[k] : k \in 1..Len(symlinks)}

\* dst.parent: ~/.config for the config mappings, ~ for tmux.conf
ParentOf(rel) == IF rel = "tmux/tmux.conf" THEN "home" ELSE "config"

\* str(src.resolve()): the absolute path of the source inside the repository
Resolved(rel) == <<"repo_root", rel>>

\* link destinations outside the repository: an existing path, a missing path
Elsewhere == <<"elsewhere", "existing">>
Nowhere == <<"elsewhere", "missing">>

VARIABLES
    srcExists,   \* [Rels -> BOOLEAN]   (repo_root / src_rel).exists()
    dst,         \* [Rels -> Entry]     what is at the target path
    bak,         \* [Rels -> Entry]     what is at "<target>.backup"
    configDir,   \* BOOLEAN             ~/.config exists (a directory)
    linkPc,      \* position inside create_symlinks
    linkIdx,     \* index of the mapping being processed
    success,     \* local variable success of create_symlinks
    runs,        \* number of create_symlinks calls started
    ops,         \* successful filesystem mutations of the current call
    fsAtCall,    \* filesystem at the entry of the current call
    fsStart,     \* filesystem before the first call
    visited,     \* mappings the for loop of the current call has reached
    raised,      \* mappings whose loop body raised in the current call
    log          \* lines printed by print_status: <<severity, message>>

VARIABLES
    config,      \* config_path: [exists, text]
    fishDir,     \* BOOLEAN: config_path.parent exists
    configPrev,  \* config_path before the latest update_fish_config call
    config0,     \* config_path before the first call
    fishCalls,   \* number of update_fish_config calls made
    misePc,      \* position inside setup_mise.py main
    yes,         \* args.yes
    cmds,        \* external commands setup_mise.py has run
    miseOk,      \* ok of setup_mise.py main: "none", "pass", "fail"
    miseExit,    \* exit code of setup_mise.py, -1 while it runs
    answer       \* what the operator typed at the prompt, "none" if not asked

VARIABLES
    program,     \* what is being run: "create_symlinks", "update_fish_config",
                 \* "setup.py", "setup_mise.py" or "run_command"
    faults,      \* the <<call, mapping>> pairs the operating system fails
    elsewhere    \* what is at the path a foreign symlink points at

envVars == <<program, faults, elsewhere>>

VARIABLES
    rcArgs,      \* the arguments of a run_command call and what the command does
    rcResult     \* how the run_command call ended

runVars == <<rcArgs, rcResult>>

VARIABLES
    mainPc,        \* position inside setup.py main, "none" when main is not running
    ret,           \* return value of the step function that ran last
    executed,      \* step functions main has called, in call order, with results
    exitCode,      \* return value of main, -1 while it runs
    cltInstalled,  \* check_command_exists("gcc")
    brewInstalled, \* check_command_exists("brew")
    fishInstalled, \* check_command_exists("fish")
    loginShell,    \* the user's default shell: "fish" or "other"
    verified,      \* result of verify_installation: "none", "pass", "fail"
    returncodes    \* exit codes of "brew bundle" and "chsh", -1 when not run

mainVars == <<mainPc, ret, executed, exitCode, cltInstalled, brewInstalled,
              fishInstalled, loginShell, verified, returncodes>>

VARIABLES
    nvimPc,      \* position inside setup_astronvim.py main, "none" when not run
    nvimYes,     \* args.yes of setup_astronvim.py
    nvimAnswer,  \* what the operator typed at its prompt, "none" if not asked
    nvim,        \* what is at $XDG_CONFIG_HOME/nvim
    nvimBak,     \* what is at the "nvim.backup.<timestamp>" path of this run
    srcUser,     \* whether repo_root/nvim/astronvim_user exists
    nvimCmds,    \* external commands setup_astronvim.py has started
    nvimSteps,   \* the functions main has called, in order, with their outcome
    nvimExit,    \* exit code of setup_astronvim.py, -1 while it runs
    nvimStart    \* nvim and nvimBak when the script was started

nvimVars == <<nvimPc, nvimYes, nvimAnswer, nvim, nvimBak, srcUser, nvimCmds,
              nvimSteps, nvimExit, nvimStart>>

fishVars == <<config, fishDir, configPrev, config0, fishCalls>>
miseVars == <<misePc, yes, cmds, miseOk, miseExit, answer>>

linkVars == <<srcExists, dst, bak, configDir, linkPc, linkIdx, success,
              runs, ops, fsAtCall, fsStart, visited, raised, log>>

\* ------------------------------------------------------------ filesystem
Absent == [kind |-> "absent", data |-> << >>]
File(c) == [kind |-> "file", data |-> <<"content", c>>]
Dir(c) == [kind |-> "dir", data |-> <<"content", c>>]
Symlink(t) == [kind |-> "symlink", data |-> t]

\* a type test that never recognises a symlink
IsSymlinkNever(e) == FALSE

\* Path.is_symlink()
IsSymlink(e) == e.kind = "symlink"

\* Path.exists(): follows symlinks, so a dangling symlink does not exist
Exists(e) ==
    CASE e.kind = "absent" -> FALSE
      [] e.kind = "symlink" ->
            IF e.data \in {Resolved(r) : r \in Rels}
            THEN \E r \in Rels : e.data = Resolved(r) /\ srcExists[r]
            ELSE e.data = Elsewhere /\ elsewhere.kind # "absent"
      [] OTHER -> TRUE

FS == [dst |-> dst, bak |-> bak, configDir |-> configDir, elsewhere |-> elsewhere]

\* an output routine that drops warnings
print_status_quiet(out, message, status) ==
    IF status = "WARNING" THEN out ELSE Append(out, <<status, message>>)

\* print_status(message, status): one output line with its severity marker
print_status(out, message, status) == Append(out, <<status, message>>)

\* os.rename(old, new): new is replaced when the kinds allow it; a directory
\* cannot replace a non-directory (ENOTDIR), a non-directory cannot replace a
\* directory (EISDIR), and the directories of the model are never empty
os_rename_ok(old, new) ==
    CASE new.kind = "absent" -> TRUE
      [] old.kind = "dir" -> FALSE
      [] OTHER -> new.kind # "dir"

\* Path.unlink(): removes a file or a symlink, raises on a directory
unlink_ok(e) == e.kind \in {"file", "symlink"}

\* ------------------------------------------------------- create_symlinks
CurRel == symlinks[linkIdx]

\* a source test that lets every mapping through
src_exists_always(rel) == TRUE

\* (repo_root / src_rel).exists()
src_exists(rel) == srcExists[rel]

\* an operating-system error (permission, I/O) hits call op of mapping rel
Faulty(op, rel) == <<op, rel>> \in faults

\* an exception handler outside the for loop: the first error ends the batch
LinkFailedAbort(msg) ==
    /\ log' = print_status(log, msg, "ERROR")
    /\ success' = FALSE
    /\ raised' = raised \cup {CurRel}
    /\ linkIdx' = Len(symlinks) + 1
    /\ linkPc' = "loop"

\* "except Exception as e": print the error, success = False, next mapping
LinkFailed(msg) ==
    /\ log' = print_status(log, msg, "ERROR")
    /\ success' = FALSE
    /\ raised' = raised \cup {CurRel}
    /\ linkIdx' = linkIdx + 1
    /\ linkPc' = "loop"

\* entry of create_symlinks: success = True, start of the for loop
EnterCreateSymlinks ==
    /\ linkPc' = "loop"
    /\ linkIdx' = 1
    /\ success' = TRUE
    /\ runs' = runs + 1
    /\ ops' = << >>
    /\ visited' = << >>
    /\ raised' = {}
    /\ fsAtCall' = FS
    /\ UNCHANGED <<srcExists, dst, bak, configDir, fsStart, log>>

\* for src_rel, dst in symlinks.items(): src = repo_root / src_rel;
\* if not src.exists(): warn and continue
CheckSource ==
    /\ linkPc = "loop"
    /\ linkIdx <= Len(symlinks)
    /\ visited' = Append(visited, CurRel)
    /\ IF ~src_exists(CurRel)
       THEN /\ log' = print_status(log, "Source not found", "WARNING")
            /\ linkIdx' = linkIdx + 1
            /\ linkPc' = "loop"
       ELSE /\ linkPc' = "remove"
            /\ UNCHANGED <<log, linkIdx>>
    /\ UNCHANGED <<srcExists, dst, bak, configDir, success, runs, ops,
                   fsAtCall, fsStart, raised>>

\* "Remove existing symlink or file": unlink a symlink, back up foreign
\* content once, unlink the occupant when a backup is already there
RemoveExisting ==
    /\ linkPc = "remove"
    /\ LET rel == CurRel
           e == dst[rel]
           b == bak[rel]
       IN  IF Exists(e) \/ IsSymlink(e)
           THEN IF IsSymlink(e)
                THEN \* dst.unlink()
                     IF ~Faulty("unlink", rel)
                     THEN /\ dst' = [dst EXCEPT ![rel] = Absent]
                          /\ ops' = Append(ops, <<"unlink", rel>>)
                          /\ log' = print_status(log, "Replaced existing symlink", "INFO")
                          /\ linkPc' = "mkdir"
                          /\ UNCHANGED <<bak, success, linkIdx, raised>>
                     ELSE /\ LinkFailed("Failed to create symlink")
                          /\ UNCHANGED <<dst, bak, ops>>
                ELSE IF ~Exists(b)
                     THEN \* os.rename(str(dst), str(backup_dst))
                          IF os_rename_ok(e, b) /\ ~Faulty("rename", rel)
                          THEN /\ bak' = [bak EXCEPT ![rel] = e]
                               /\ dst' = [dst EXCEPT ![rel] = Absent]
                               /\ ops' = Append(ops, <<"rename", rel>>)
                               /\ log' = print_status(log, "Backed up existing config", "WARNING")
                               /\ linkPc' = "mkdir"
                               /\ UNCHANGED <<success, linkIdx, raised>>
                          ELSE /\ LinkFailed("Failed to create symlink")
                               /\ UNCHANGED <<dst, bak, ops>>
                     ELSE \* already backed up: dst.unlink()
                          IF unlink_ok(e) /\ ~Faulty("unlink", rel)
                          THEN /\ dst' = [dst EXCEPT ![rel] = Absent]
                               /\ ops' = Append(ops, <<"unlink", rel>>)
                               /\ log' = print_status(log, "Config already backed up", "INFO")
                               /\ linkPc' = "mkdir"
                               /\ UNCHANGED <<bak, success, linkIdx, raised>>
                          ELSE /\ log' = print_status(
                                          print_status(log, "Config already backed up", "INFO"),
                                          "Failed to create symlink", "ERROR")
                               /\ success' = FALSE
                               /\ raised' = raised \cup {rel}
                               /\ linkIdx' = linkIdx + 1
                               /\ linkPc' = "loop"
                               /\ UNCHANGED <<dst, bak, ops>>
           ELSE /\ linkPc' = "mkdir"
                /\ UNCHANGED <<dst, bak, ops, log, success, linkIdx, raised>>
    /\ UNCHANGED <<srcExists, configDir, runs, fsAtCall, fsStart, visited>>

\* dst.parent.mkdir(parents=True, exist_ok=True)
MakeParent ==
    /\ linkPc = "mkdir"
    /\ IF ParentOf(CurRel) = "config" /\ ~configDir
       THEN IF ~Faulty("mkdir", CurRel)
            THEN /\ configDir' = TRUE
                 /\ ops' = Append(ops, <<"mkdir", CurRel>>)
                 /\ linkPc' = "symlink"
                 /\ UNCHANGED <<log, success, linkIdx, raised>>
            ELSE /\ LinkFailed("Failed to create symlink")
                 /\ UNCHANGED <<configDir, ops>>
       ELSE /\ linkPc' = "symlink"
            /\ UNCHANGED <<configDir, ops, log, success, linkIdx, raised>>
    /\ UNCHANGED <<srcExists, dst, bak, runs, fsAtCall, fsStart, visited>>

\* os.symlink(str(src.resolve()), str(dst)): FileExistsError when the
\* target path is occupied
CreateSymlink ==
    /\ linkPc = "symlink"
    /\ IF dst[CurRel].kind = "absent" /\ ~Faulty("symlink", CurRel)
       THEN /\ dst' = [dst EXCEPT ![CurRel] = Symlink(Resolved(CurRel))]
            /\ ops' = Append(ops, <<"symlink", CurRel>>)
            /\ log' = print_status(log, "Symlink created", "SUCCESS")
            /\ linkIdx' = linkIdx + 1
            /\ linkPc' = "loop"
            /\ UNCHANGED <<success, raised>>
       ELSE /\ LinkFailed("Failed to create symlink")
            /\ UNCHANGED <<dst, ops>>
    /\ UNCHANGED <<srcExists, bak, configDir, runs, fsAtCall, fsStart, visited>>

\* return success
ReturnSymlinks ==
    /\ linkPc = "loop"
    /\ linkIdx > Len(symlinks)
    /\ linkPc' = "returned"
    /\ UNCHANGED <<srcExists, dst, bak, configDir, linkIdx, success, runs,
                   ops, fsAtCall, fsStart, visited, raised, log>>

\* ------------------------------------------------ setup_mise.py: the block
\* A file is a sequence of tokens: "B" and "E" are the two marker strings
\* (neither is a substring of the other and they cannot overlap), "n" is a
\* newline, "x" any other character, "body" the three lines between the
\* markers of MISE_BLOCK.
MISE_BLOCK_BEGIN == "B"
MISE_BLOCK_END == "E"
MISE_BLOCK == <<MISE_BLOCK_BEGIN, "n", "body", "n", MISE_BLOCK_END, "n">>

\* index of the first occurrence of tok in text, 0 when there is none
RECURSIVE FindFrom(_, _, _)
FindFrom(text, tok, i) ==
    IF i > Len(text) THEN 0
    ELSE IF text[i] = tok THEN i
    ELSE FindFrom(text, tok, i + 1)

Find(text, tok) == FindFrom(text, tok, 1)

\* a marker test that never finds the marker
ContainsNever(text, tok) == FALSE

\* tok in text
Contains(text, tok) == Find(text, tok) # 0

\* text.split(tok, 1)[0]
SplitHead(text, tok) ==
    IF Contains(text, tok) THEN SubSeq(text, 1, Find(text, tok) - 1) ELSE text

\* text.split(tok, 1)[-1]
SplitTail(text, tok) ==
    IF Contains(text, tok) THEN SubSeq(text, Find(text, tok) + 1, Len(text))
    ELSE text

\* a strip that removes nothing
lstrip_nothing(text) == text

\* text.lstrip("\n")
RECURSIVE lstrip(_)
lstrip(text) ==
    IF text # << >> /\ Head(text) = "n" THEN lstrip(Tail(text)) ELSE text

\* text.endswith("\n")
endswith_nl(text) == text # << >> /\ text[Len(text)] = "n"

NoFile == [exists |-> FALSE, text |-> << >>]
TextFile(t) == [exists |-> TRUE, text |-> t]

\* the content update_fish_config leaves in config_path
update_fish_config(f) ==
    IF ~f.exists
    THEN TextFile(MISE_BLOCK)
    ELSE LET text == f.text IN
         IF Contains(text, MISE_BLOCK_BEGIN) /\ Contains(text, MISE_BLOCK_END)
         THEN LET pre == SplitHead(text, MISE_BLOCK_BEGIN)
                  post == SplitTail(text, MISE_BLOCK_END)
              IN  TextFile(pre \o MISE_BLOCK \o lstrip(post))
         ELSE TextFile(text
                       \o (IF ~endswith_nl(text) THEN <<"n">> ELSE << >>)
                       \o <<"n">> \o MISE_BLOCK)

\* update_fish_config(config_path): read, compute, write; a new file gets
\* its parent directories first (mkdir(parents=True, exist_ok=True))
CallUpdateFishConfig ==
    /\ configPrev' = config
    /\ config' = update_fish_config(config)
    /\ fishDir' = TRUE
    /\ fishCalls' = fishCalls + 1
    /\ UNCHANGED config0

\* ------------------------------------------------- setup_mise.py: main
\* sys.exit(code)
MiseExit(code) ==
    /\ misePc' = "exited"
    /\ miseExit' = code

\* "if not args.yes: ans = input(...); if ans.lower() != 'y': sys.exit(0)"
lower(ans) == CASE ans = "Y" -> "y" [] ans = "N" -> "n" [] OTHER -> ans

\* what the operator may type at "Continue? [y/N] "
Answers == {"y", "Y", "n", "N", "yes", ""}

\* a confirmation that takes every answer for a yes
DeclinedNever(ans) == FALSE

\* "if ans.lower() != 'y'"
Declined(ans) == lower(ans) # "y"

MiseConfirm ==
    /\ misePc = "confirm"
    /\ IF ~yes
       THEN \E ans \in Answers :
               /\ answer' = ans
               /\ IF Declined(ans)
                  THEN MiseExit(0)
                  ELSE misePc' = "ensure" /\ UNCHANGED miseExit
       ELSE misePc' = "ensure" /\ UNCHANGED <<miseExit, answer>>
    /\ UNCHANGED <<fishVars, yes, cmds, miseOk>>

\* "if not ensure_mise_available(): sys.exit(1)"
MiseEnsure ==
    /\ misePc = "ensure"
    /\ \E which_mise \in BOOLEAN :
          IF ~which_mise
          THEN MiseExit(1)
          ELSE misePc' = "install" /\ UNCHANGED miseExit
    /\ UNCHANGED <<fishVars, yes, cmds, miseOk, answer>>

\* install_runtimes(["python", "rust", "bun"]): the return code of each
\* "mise install" only selects the line printed
MiseInstallRuntimes ==
    /\ misePc = "install"
    /\ cmds' = cmds \o << <<"mise", "install", "python">>,
                          <<"mise", "install", "rust">>,
                          <<"mise", "install", "bun">> >>
    /\ misePc' = "update"
    /\ UNCHANGED <<fishVars, yes, miseOk, miseExit, answer>>

MiseUpdateFishConfig ==
    /\ misePc = "update"
    /\ CallUpdateFishConfig
    /\ misePc' = "verify"
    /\ UNCHANGED <<yes, cmds, miseOk, miseExit, answer>>

\* verify_bins_in_fish(bins): False when fish cannot be started or when a
\* binary has no path in its output
bins_to_check == {"python", "rustc", "bun"}

verify_bins_in_fish(fish_found, found) ==
    IF ~fish_found THEN FALSE
    ELSE LET missing == {b \in bins_to_check : b \notin found}
         IN  missing = {}

\* "ok = verify_bins_in_fish(...); if not ok: sys.exit(2)"; falling off the
\* end of main ends the process with exit code 0
MiseVerify ==
    /\ misePc = "verify"
    /\ \E fish_found \in BOOLEAN, found \in SUBSET bins_to_check :
          /\ cmds' = IF fish_found THEN Append(cmds, <<"fish", "-ic">>) ELSE cmds
          /\ IF ~verify_bins_in_fish(fish_found, found)
             THEN miseOk' = "fail" /\ MiseExit(2)
             ELSE miseOk' = "pass" /\ MiseExit(0)
    /\ UNCHANGED <<fishVars, yes, answer>>

\* ---------------------------------------------- setup_astronvim.py: main
\* the process ends: sys.exit(code), an uncaught exception (1) or the end
\* of main (0)
NvimEnd(code) ==
    /\ nvimPc' = "exited"
    /\ nvimExit' = code

\* a step function of main was called and returned (TRUE) or raised (FALSE)
NvimCalled(step, ok) == nvimSteps' = Append(nvimSteps, <<step, ok>>)

\* "if not args.yes: ans = input(...); if ans.lower() != 'y': sys.exit(0)"
NvimConfirm ==
    /\ nvimPc = "confirm"
    /\ IF ~nvimYes
       THEN \E ans \in Answers :
               /\ nvimAnswer' = ans
               /\ IF Declined(ans)
                  THEN NvimEnd(0)
                  ELSE nvimPc' = "backup" /\ UNCHANGED nvimExit
       ELSE nvimPc' = "backup" /\ UNCHANGED <<nvimExit, nvimAnswer>>
    /\ UNCHANGED <<nvimYes, nvim, nvimBak, srcUser, nvimCmds, nvimSteps, nvimStart>>

\* a backup that removes what is at the nvim path
backup_existing_delete ==
    /\ nvimPc = "backup"
    /\ nvim' = Absent
    /\ NvimCalled("backup_existing", TRUE)
    /\ nvimPc' = "clone"
    /\ UNCHANGED <<nvimBak, nvimExit>>
    /\ UNCHANGED <<nvimYes, nvimAnswer, srcUser, nvimCmds, nvimStart>>

\* backup_existing(nvim): "if nvim.exists(): nvim.rename(backup)"; an
\* OSError of the rename is not caught and ends the process
backup_existing ==
    /\ nvimPc = "backup"
    /\ IF Exists(nvim)
       THEN \E denied \in BOOLEAN :
               IF os_rename_ok(nvim, nvimBak) /\ ~denied
               THEN /\ nvimBak' = nvim
                    /\ nvim' = Absent
                    /\ NvimCalled("backup_existing", TRUE)
                    /\ nvimPc' = "clone"
                    /\ UNCHANGED nvimExit
               ELSE /\ NvimCalled("backup_existing", FALSE)
                    /\ NvimEnd(1)
                    /\ UNCHANGED <<nvim, nvimBak>>
       ELSE /\ NvimCalled("backup_existing", TRUE)
            /\ nvimPc' = "clone"
            /\ UNCHANGED <<nvim, nvimBak, nvimExit>>
    /\ UNCHANGED <<nvimYes, nvimAnswer, srcUser, nvimCmds, nvimStart>>

\* the exit codes "git clone" can end with: 0 only into a free path
GitCloneCodes(e) == IF e.kind = "absent" THEN {0, 128} ELSE {128}

\* clone_astronvim(nvim): subprocess.check_call(["git", "clone", ...]);
\* CalledProcessError and FileNotFoundError are not caught
clone_astronvim ==
    /\ nvimPc = "clone"
    /\ nvimCmds' = Append(nvimCmds, <<"git", "clone">>)
    /\ \E git_found \in BOOLEAN, code \in GitCloneCodes(nvim) :
          IF git_found /\ code = 0
          THEN /\ nvim' = Dir("AstroNvim")
               /\ NvimCalled("clone_astronvim", TRUE)
               /\ nvimPc' = "install"
               /\ UNCHANGED nvimExit
          ELSE /\ NvimCalled("clone_astronvim", FALSE)
               /\ NvimEnd(1)
               /\ UNCHANGED nvim
    /\ UNCHANGED <<nvimYes, nvimAnswer, nvimBak, srcUser, nvimStart>>

\* install_user_config(src, dest_user): SystemExit(message) when src is
\* missing, else mkdir and copy into nvim/lua/user; an OSError of the copy
\* is not caught and may leave a part of the copy behind
install_user_config ==
    /\ nvimPc = "install"
    /\ IF ~srcUser
       THEN /\ NvimCalled("install_user_config", FALSE)
            /\ NvimEnd(1)
            /\ UNCHANGED nvim
       ELSE \E copied \in {"all", "part", "nothing"} :
               /\ nvim' = CASE copied = "all" -> Dir("AstroNvim, lua/user")
                             [] copied = "part" -> Dir("AstroNvim, part of lua/user")
                             [] OTHER -> nvim
               /\ NvimCalled("install_user_config", copied = "all")
               /\ NvimEnd(IF copied = "all" THEN 0 ELSE 1)
    /\ UNCHANGED <<nvimYes, nvimAnswer, nvimBak, srcUser, nvimCmds, nvimStart>>

\* ------------------------------------------------------ setup.py: steps
\* a step function returns: record the call and its result
Returned(step, value, nextPc) ==
    /\ ret' = value
    /\ executed' = Append(executed, <<step, value>>)
    /\ mainPc' = nextPc

\* run_command(cmd, description, check=False): prints the description and
\* returns the exit code
run_command(out, description) == print_status(out, description, "INFO")

\* a strictness test that ignores the caller's check argument
StrictFailureAlways(check, returncode) == returncode # 0

\* "if check and result.returncode != 0"
StrictFailure(check, returncode) == check /\ returncode # 0

\* one whole call of run_command(cmd, description, check): the description
\* line, subprocess.run, the strict-mode branch, the return or sys.exit(1);
\* an OSError of subprocess.run (command not found) is not caught
CallRunCommand ==
    /\ program = "run_command"
    /\ rcResult.kind = "none"
    /\ LET a == rcArgs
           out1 == IF a.description # ""
                   THEN print_status(log, a.description, "INFO")
                   ELSE log
       IN  IF ~a.started
           THEN /\ log' = out1
                /\ rcResult' = [kind |-> "raised", value |-> <<"OSError">>]
           ELSE IF StrictFailure(a.check, a.returncode)
           THEN /\ log' = print_status(
                              IF a.stderr # << >>
                              THEN print_status(out1, "Command failed", "ERROR")
                              ELSE out1,
                              "Failed to execute", "ERROR")
                /\ rcResult' = [kind |-> "exit", value |-> <<1>>]
           ELSE /\ log' = out1
                /\ rcResult' = [kind |-> "returned",
                                value |-> <<a.returncode, a.stdout \o a.stderr>>]
    /\ UNCHANGED <<envVars, rcArgs, nvimVars, fishVars, miseVars, mainVars>>
    /\ UNCHANGED <<srcExists, dst, bak, configDir, linkPc, linkIdx, success,
                   runs, ops, fsAtCall, fsStart, visited, raised>>

install_xcode_clt ==
    /\ mainPc = "step1"
    /\ IF cltInstalled
       THEN /\ log' = print_status(log, "Xcode Command Line Tools already installed", "SUCCESS")
            /\ Returned("install_xcode_clt", TRUE, "after1")
            /\ UNCHANGED cltInstalled
       ELSE LET out == run_command(
                          print_status(log, "Installing Xcode Command Line Tools...", "INFO"),
                          "Initializing Xcode CLT installer")
            IN  \E code \in {0, 1, 2} :
                  IF code = 0
                  THEN \* input("Press Enter ..."), then gcc is looked up again
                       \E completed \in BOOLEAN :
                          /\ cltInstalled' = completed
                          /\ IF completed
                             THEN /\ log' = print_status(
                                       print_status(out, "Xcode CLT install initiated", "INFO"),
                                       "Xcode Command Line Tools installed successfully", "SUCCESS")
                                  /\ Returned("install_xcode_clt", TRUE, "after1")
                             ELSE /\ log' = print_status(
                                       print_status(out, "Xcode CLT install initiated", "INFO"),
                                       "Xcode CLT installation could not be verified", "WARNING")
                                  /\ Returned("install_xcode_clt", FALSE, "after1")
                  ELSE IF code = 1
                  THEN /\ log' = print_status(out, "Xcode Command Line Tools already installed", "SUCCESS")
                       /\ Returned("install_xcode_clt", TRUE, "after1")
                       /\ UNCHANGED cltInstalled
                  ELSE /\ log' = print_status(out, "Failed to install Xcode Command Line Tools", "ERROR")
                       /\ Returned("install_xcode_clt", FALSE, "after1")
                       /\ UNCHANGED cltInstalled
    /\ UNCHANGED <<exitCode, brewInstalled, fishInstalled, loginShell, verified, returncodes>>
    /\ UNCHANGED <<srcExists, dst, bak, configDir, linkPc, linkIdx, success,
                   runs, ops, fsAtCall, fsStart, visited, raised>>

install_homebrew ==
    /\ mainPc = "step2"
    /\ IF brewInstalled
       THEN /\ log' = print_status(log, "Homebrew already installed", "SUCCESS")
            /\ Returned("install_homebrew", TRUE, "after2")
            /\ UNCHANGED brewInstalled
       ELSE LET out == run_command(
                          print_status(log, "Installing Homebrew...", "INFO"),
                          "Downloading and running Homebrew installer")
            IN  \E code \in {0, 1}, on_path \in BOOLEAN :
                  IF code = 0 /\ on_path
                  THEN /\ brewInstalled' = TRUE
                       /\ log' = print_status(out, "Homebrew installed successfully", "SUCCESS")
                       /\ Returned("install_homebrew", TRUE, "after2")
                  ELSE /\ log' = print_status(out, "Homebrew installation failed", "ERROR")
                       /\ Returned("install_homebrew", FALSE, "after2")
                       /\ UNCHANGED brewInstalled
    /\ UNCHANGED <<exitCode, cltInstalled, fishInstalled, loginShell, verified, returncodes>>
    /\ UNCHANGED <<srcExists, dst, bak, configDir, linkPc, linkIdx, success,
                   runs, ops, fsAtCall, fsStart, visited, raised>>

\* config_dir.mkdir(exist_ok=True, parents=True); any exception gives False
create_config_structure ==
    /\ mainPc = "step3"
    /\ \E mkdir_ok \in BOOLEAN :
          IF configDir \/ mkdir_ok
          THEN /\ configDir' = TRUE
               /\ log' = print_status(log, "Config directory ready", "SUCCESS")
               /\ Returned("create_config_structure", TRUE, "after3")
          ELSE /\ log' = print_status(log, "Failed to create config directory", "ERROR")
               /\ Returned("create_config_structure", FALSE, "after3")
               /\ UNCHANGED configDir
    /\ UNCHANGED <<exitCode, cltInstalled, brewInstalled, fishInstalled,
                   loginShell, verified, returncodes>>
    /\ UNCHANGED <<srcExists, dst, bak, linkPc, linkIdx, success,
                   runs, ops, fsAtCall, fsStart, visited, raised>>

install_brewfile ==
    /\ mainPc = "step5"
    /\ \E brewfile_exists \in BOOLEAN :
          IF ~brewfile_exists
          THEN /\ log' = print_status(log, "Brewfile not found", "WARNING")
               /\ Returned("install_brewfile", FALSE, "after5")
               /\ UNCHANGED <<fishInstalled, returncodes>>
          ELSE LET out == run_command(
                             print_status(log, "Installing packages from Brewfile...", "INFO"),
                             "Running brew bundle")
               IN  \E outcome \in {"raised", "zero", "nonzero"},
                      already \in BOOLEAN, fish_added \in BOOLEAN :
                     /\ fishInstalled' = (fishInstalled \/ (fish_added /\ outcome # "raised"))
                     /\ returncodes' = [returncodes EXCEPT !.brew =
                                           CASE outcome = "zero" -> 0
                                             [] outcome = "nonzero" -> 1
                                             [] OTHER -> @]
                     /\ IF outcome = "raised"
                        THEN \* except Exception
                             /\ log' = print_status(out, "Failed to install Brewfile", "ERROR")
                             /\ Returned("install_brewfile", FALSE, "after5")
                        ELSE IF outcome = "zero"
                        THEN /\ log' = print_status(out, "Brewfile packages installed successfully", "SUCCESS")
                             /\ Returned("install_brewfile", TRUE, "after5")
                        ELSE IF already
                        THEN /\ log' = print_status(out, "Brewfile processed (some packages already installed)", "SUCCESS")
                             /\ Returned("install_brewfile", TRUE, "after5")
                        ELSE \* "Still consider this a success"
                             /\ log' = print_status(out, "Brewfile installation had issues", "WARNING")
                             /\ Returned("install_brewfile", TRUE, "after5")
    /\ UNCHANGED <<exitCode, cltInstalled, brewInstalled, loginShell, verified>>
    /\ UNCHANGED <<srcExists, dst, bak, configDir, linkPc, linkIdx, success,
                   runs, ops, fsAtCall, fsStart, visited, raised>>

\* main discards the return value of setup_fish_shell and goes on to step 7
setup_fish_shell ==
    /\ mainPc = "step6"
    /\ IF loginShell = "fish"
       THEN /\ log' = print_status(log, "Fish shell already set as default", "SUCCESS")
            /\ Returned("setup_fish_shell", TRUE, "step7")
            /\ UNCHANGED <<loginShell, returncodes>>
       ELSE IF ~fishInstalled
       THEN /\ log' = print_status(log, "Fish shell not installed", "WARNING")
            /\ Returned("setup_fish_shell", FALSE, "step7")
            /\ UNCHANGED <<loginShell, returncodes>>
       ELSE \E which_ok \in BOOLEAN, in_shells \in BOOLEAN,
               tee_code \in {0, 1}, chsh_code \in {0, 1} :
              IF ~which_ok
              THEN \* except Exception
                   /\ log' = print_status(log, "Failed to setup fish shell", "WARNING")
                   /\ Returned("setup_fish_shell", FALSE, "step7")
                   /\ UNCHANGED <<loginShell, returncodes>>
              ELSE IF ~in_shells /\ tee_code # 0
              THEN /\ log' = print_status(run_command(log, "Adding fish to /etc/shells"),
                                          "Could not add fish to /etc/shells", "WARNING")
                   /\ Returned("setup_fish_shell", FALSE, "step7")
                   /\ UNCHANGED <<loginShell, returncodes>>
              ELSE LET out == run_command(
                                 IF ~in_shells
                                 THEN run_command(log, "Adding fish to /etc/shells")
                                 ELSE log,
                                 "Setting fish as default shell")
                   IN  IF chsh_code = 0
                       THEN /\ loginShell' = "fish"
                            /\ returncodes' = [returncodes EXCEPT !.chsh = 0]
                            /\ log' = print_status(out, "Fish shell set as default", "SUCCESS")
                            /\ Returned("setup_fish_shell", TRUE, "step7")
                       ELSE /\ log' = print_status(out, "Failed to set fish as default shell", "WARNING")
                            /\ Returned("setup_fish_shell", FALSE, "step7")
                            /\ returncodes' = [returncodes EXCEPT !.chsh = chsh_code]
                            /\ UNCHANGED loginShell
    /\ UNCHANGED <<exitCode, cltInstalled, brewInstalled, fishInstalled, verified>>
    /\ UNCHANGED <<srcExists, dst, bak, configDir, linkPc, linkIdx, success,
                   runs, ops, fsAtCall, fsStart, visited, raised>>

\* the checks dict of verify_installation, in its order
checks == <<"Homebrew", "Fish", "Git", "Starship", "Neovim">>

\* the for loop over checks: one line per probe, all_good = False on a miss
RECURSIVE VerifyLoop(_, _, _)
VerifyLoop(out, present, k) ==
    IF k > Len(checks) THEN out
    ELSE VerifyLoop(
            IF checks[k] \in present
            THEN print_status(out, checks[k], "SUCCESS")
            ELSE print_status(out, checks[k], "WARNING"),
            present, k + 1)

verify_installation ==
    /\ mainPc = "step7"
    /\ \E others \in SUBSET {"Git", "Starship", "Neovim"} :
          LET present == others
                         \cup (IF brewInstalled THEN {"Homebrew"} ELSE {})
                         \cup (IF fishInstalled THEN {"Fish"} ELSE {})
              all_good == \A k \in 1..Len(checks) : checks[k] \in present
          IN  /\ log' = VerifyLoop(log, present, 1)
              /\ verified' = IF all_good THEN "pass" ELSE "fail"
              /\ Returned("verify_installation", all_good, "after7")
    /\ UNCHANGED <<exitCode, cltInstalled, brewInstalled, fishInstalled, loginShell,
                   returncodes>>
    /\ UNCHANGED <<srcExists, dst, bak, configDir, linkPc, linkIdx, success,
                   runs, ops, fsAtCall, fsStart, visited, raised>>

\* --------------------------------------------------------- setup.py: main
\* a main that prints the error of a failed required step and goes on
MainAfterRequiredContinue ==
    /\ mainPc \in {"after1", "after2", "after3"}
    /\ log' = IF ~ret
              THEN print_status(log, "required step failed. Exiting.", "ERROR")
              ELSE log
    /\ mainPc' = CASE mainPc = "after1" -> "step2"
                     [] mainPc = "after2" -> "step3"
                     [] OTHER -> "step4"
    /\ UNCHANGED <<ret, executed, exitCode, cltInstalled, brewInstalled,
                   fishInstalled, loginShell, verified, returncodes>>
    /\ UNCHANGED <<srcExists, dst, bak, configDir, linkPc, linkIdx, success,
                   runs, ops, fsAtCall, fsStart, visited, raised>>

\* "if not <required step>(): print_status(..., 'ERROR'); return 1"
MainAfterRequired ==
    /\ mainPc \in {"after1", "after2", "after3"}
    /\ IF ~ret
       THEN /\ log' = print_status(log, "required step failed. Exiting.", "ERROR")
            /\ exitCode' = 1
            /\ mainPc' = "done"
       ELSE /\ mainPc' = CASE mainPc = "after1" -> "step2"
                            [] mainPc = "after2" -> "step3"
                            [] OTHER -> "step4"
            /\ UNCHANGED <<log, exitCode>>
    /\ UNCHANGED <<ret, executed, cltInstalled, brewInstalled, fishInstalled,
                   loginShell, verified, returncodes>>
    /\ UNCHANGED <<srcExists, dst, bak, configDir, linkPc, linkIdx, success,
                   runs, ops, fsAtCall, fsStart, visited, raised>>

\* "if not create_symlinks(repo_root):": the call
MainCallCreateSymlinks ==
    /\ mainPc = "step4"
    /\ EnterCreateSymlinks
    /\ mainPc' = "in4"
    /\ UNCHANGED <<ret, executed, exitCode, cltInstalled, brewInstalled,
                   fishInstalled, loginShell, verified, returncodes>>

\* ... and the branch on its return value
MainAfterSymlinks ==
    /\ mainPc = "in4"
    /\ linkPc = "returned"
    /\ Returned("create_symlinks", success, "step5")
    /\ linkPc' = "idle"
    /\ log' = IF ~success
              THEN print_status(log, "Some symlinks failed to create, but continuing...", "WARNING")
              ELSE log
    /\ UNCHANGED <<exitCode, cltInstalled, brewInstalled, fishInstalled,
                   loginShell, verified, returncodes>>
    /\ UNCHANGED <<srcExists, dst, bak, configDir, linkIdx, success,
                   runs, ops, fsAtCall, fsStart, visited, raised>>

\* a main that treats install_brewfile as a required step
MainAfterBrewfileAbort ==
    /\ mainPc = "after5"
    /\ IF ~ret
       THEN /\ log' = print_status(log, "Brewfile installation had issues, but continuing...", "WARNING")
            /\ exitCode' = 1
            /\ mainPc' = "done"
       ELSE /\ mainPc' = "step6"
            /\ UNCHANGED <<log, exitCode>>
    /\ UNCHANGED <<ret, executed, cltInstalled, brewInstalled,
                   fishInstalled, loginShell, verified, returncodes>>
    /\ UNCHANGED <<srcExists, dst, bak, configDir, linkPc, linkIdx, success,
                   runs, ops, fsAtCall, fsStart, visited, raised>>

\* "if not install_brewfile(repo_root): print_status(..., 'WARNING')"
MainAfterBrewfile ==
    /\ mainPc = "after5"
    /\ log' = IF ~ret
              THEN print_status(log, "Brewfile installation had issues, but continuing...", "WARNING")
              ELSE log
    /\ mainPc' = "step6"
    /\ UNCHANGED <<ret, executed, exitCode, cltInstalled, brewInstalled,
                   fishInstalled, loginShell, verified, returncodes>>
    /\ UNCHANGED <<srcExists, dst, bak, configDir, linkPc, linkIdx, success,
                   runs, ops, fsAtCall, fsStart, visited, raised>>

\* a main whose exit code follows the result of verify_installation
MainFinishByVerdict ==
    /\ mainPc = "after7"
    /\ exitCode' = IF ret THEN 0 ELSE 2
    /\ mainPc' = "done"
    /\ UNCHANGED <<ret, executed, cltInstalled, brewInstalled,
                   fishInstalled, loginShell, verified, returncodes, log>>
    /\ UNCHANGED <<srcExists, dst, bak, configDir, linkPc, linkIdx, success,
                   runs, ops, fsAtCall, fsStart, visited, raised>>

\* after verify_installation(): "Setup complete!" and return 0
MainFinish ==
    /\ mainPc = "after7"
    /\ exitCode' = 0
    /\ mainPc' = "done"
    /\ UNCHANGED <<ret, executed, cltInstalled, brewInstalled,
                   fishInstalled, loginShell, verified, returncodes, log>>
    /\ UNCHANGED <<srcExists, dst, bak, configDir, linkPc, linkIdx, success,
                   runs, ops, fsAtCall, fsStart, visited, raised>>

\* ------------------------------------------------------- specifications
vars == <<envVars, runVars, nvimVars, linkVars, fishVars, miseVars, mainVars>>

\* the states a target path can be in
DstStates(rel) ==
    {Absent, Symlink(Resolved(rel)), Symlink(Elsewhere), Symlink(Nowhere),
     File("user"), Dir("user")}

\* the states a "<target>.backup" path can be in
BakStates(rel) ==
    {Absent, Symlink(Resolved(rel)), Symlink(Elsewhere), Symlink(Nowhere),
     File("old"), Dir("old")}

\* entries under ~/.config need ~/.config
FsConsistent ==
    \A rel \in Rels :
        (ParentOf(rel) = "config" /\ ~configDir)
            => (dst[rel] = Absent /\ bak[rel] = Absent)

LinksIdle ==
    /\ linkPc = "idle"
    /\ linkIdx = 1
    /\ success = TRUE
    /\ runs = 0
    /\ ops = << >>
    /\ visited = << >>
    /\ raised = {}
    /\ fsAtCall = FS
    /\ fsStart = FS
    /\ log = << >>

FishIdle ==
    /\ configPrev = config
    /\ config0 = config
    /\ fishCalls = 0

MiseIdle ==
    /\ misePc = "none"
    /\ yes = FALSE
    /\ cmds = << >>
    /\ miseOk = "none"
    /\ miseExit = -1
    /\ answer = "none"

MainIdle ==
    /\ mainPc = "none"
    /\ ret = FALSE
    /\ executed = << >>
    /\ exitCode = -1
    /\ cltInstalled = TRUE
    /\ brewInstalled = TRUE
    /\ fishInstalled = TRUE
    /\ loginShell = "fish"
    /\ verified = "none"
    /\ returncodes = [brew |-> -1, chsh |-> -1]

NvimIdle ==
    /\ nvimPc = "none"
    /\ nvimYes = FALSE
    /\ nvimAnswer = "none"
    /\ nvim = Absent
    /\ nvimBak = Absent
    /\ srcUser = TRUE
    /\ nvimCmds = << >>
    /\ nvimSteps = << >>
    /\ nvimExit = -1
    /\ nvimStart = [nvim |-> nvim, nvimBak |-> nvimBak]

\* no injected failure, a file at the foreign link target, no run_command call
EnvIdle ==
    /\ faults = {}
    /\ elsewhere = File("other")
    /\ rcArgs = << >>
    /\ rcResult = [kind |-> "none", value |-> << >>]

Alphabet == {MISE_BLOCK_BEGIN, MISE_BLOCK_END, "n", "x"}
Texts == UNION {[1..len -> Alphabet] : len \in 0..MaxLen}
Files == {NoFile} \cup {TextFile(t) : t \in Texts}

\* --- create_symlinks called MaxRuns times in a row on every filesystem
InitLinks ==
    /\ program = "create_symlinks"
    /\ NvimIdle
    /\ EnvIdle
    /\ srcExists \in [Rels -> BOOLEAN]
    /\ dst \in {d \in [Rels -> UNION {DstStates(r) : r \in Rels}] :
                   \A r \in Rels : d[r] \in DstStates(r)}
    /\ bak \in {b \in [Rels -> UNION {BakStates(r) : r \in Rels}] :
                   \A r \in Rels : b[r] \in BakStates(r)}
    /\ configDir \in BOOLEAN
    /\ FsConsistent
    /\ LinksIdle
    /\ config = NoFile
    /\ fishDir = TRUE
    /\ FishIdle
    /\ MiseIdle
    /\ MainIdle

DriverCreateSymlinks ==
    /\ program = "create_symlinks"
    /\ linkPc \in {"idle", "returned"}
    /\ runs < MaxRuns
    /\ EnterCreateSymlinks

NextLinks ==
    \/ DriverCreateSymlinks /\ UNCHANGED <<envVars, runVars, nvimVars, mainVars, fishVars, miseVars>>
    \/ CheckSource /\ UNCHANGED <<envVars, runVars, nvimVars, mainVars, fishVars, miseVars>>
    \/ RemoveExisting /\ UNCHANGED <<envVars, runVars, nvimVars, mainVars, fishVars, miseVars>>
    \/ MakeParent /\ UNCHANGED <<envVars, runVars, nvimVars, mainVars, fishVars, miseVars>>
    \/ CreateSymlink /\ UNCHANGED <<envVars, runVars, nvimVars, mainVars, fishVars, miseVars>>
    \/ ReturnSymlinks /\ UNCHANGED <<envVars, runVars, nvimVars, mainVars, fishVars, miseVars>>

SpecLinks == InitLinks /\ [][NextLinks]_vars

\* --- update_fish_config called MaxCalls times in a row on every short file
LinksUnused ==
    /\ srcExists = [rel \in Rels |-> TRUE]
    /\ dst = [rel \in Rels |-> Absent]
    /\ bak = [rel \in Rels |-> Absent]
    /\ configDir = TRUE
    /\ LinksIdle

InitFish ==
    /\ program = "update_fish_config"
    /\ NvimIdle
    /\ EnvIdle
    /\ config \in Files
    /\ fishDir \in BOOLEAN
    /\ config.exists => fishDir
    /\ FishIdle
    /\ MiseIdle
    /\ MainIdle
    /\ LinksUnused

DriverUpdateFishConfig ==
    /\ program = "update_fish_config"
    /\ fishCalls < MaxCalls
    /\ CallUpdateFishConfig
    /\ UNCHANGED <<envVars, runVars, nvimVars, miseVars, mainVars, linkVars>>

NextFish == DriverUpdateFishConfig

SpecFish == InitFish /\ [][NextFish]_vars

\* --- one run of setup_mise.py on every short file
InitMise ==
    /\ program = "setup_mise.py"
    /\ NvimIdle
    /\ EnvIdle
    /\ config \in Files
    /\ fishDir \in BOOLEAN
    /\ config.exists => fishDir
    /\ FishIdle
    /\ misePc = "confirm"
    /\ yes \in BOOLEAN
    /\ cmds = << >>
    /\ miseOk = "none"
    /\ miseExit = -1
    /\ answer = "none"
    /\ MainIdle
    /\ LinksUnused

NextMise ==
    \/ MiseConfirm /\ UNCHANGED <<envVars, runVars, nvimVars, mainVars, linkVars>>
    \/ MiseEnsure /\ UNCHANGED <<envVars, runVars, nvimVars, mainVars, linkVars>>
    \/ MiseInstallRuntimes /\ UNCHANGED <<envVars, runVars, nvimVars, mainVars, linkVars>>
    \/ MiseUpdateFishConfig /\ UNCHANGED <<envVars, runVars, nvimVars, mainVars, linkVars>>
    \/ MiseVerify /\ UNCHANGED <<envVars, runVars, nvimVars, mainVars, linkVars>>

SpecMise == InitMise /\ [][NextMise]_vars

\* --- one run of setup.py
\* main runs on a home directory where the first target is in any state,
\* with its backup path free or holding an earlier backup, and the second
\* target is absent or a regular file
InitMain ==
    /\ program = "setup.py"
    /\ NvimIdle
    /\ EnvIdle
    /\ srcExists \in [Rels -> BOOLEAN]
    /\ dst \in {d \in [Rels -> UNION {DstStates(r) : r \in Rels}] :
                   /\ d[symlinks[1]] \in DstStates(symlinks[1])
                   /\ d[symlinks[2]] \in {Absent, File("user")}}
    /\ bak \in {b \in [Rels -> {Absent, File("old")}] : b[symlinks[2]] = Absent}
    /\ configDir \in BOOLEAN
    /\ FsConsistent
    /\ LinksIdle
    /\ mainPc = "step1"
    /\ ret = FALSE
    /\ executed = << >>
    /\ exitCode = -1
    /\ cltInstalled \in BOOLEAN
    /\ brewInstalled \in BOOLEAN
    /\ fishInstalled \in BOOLEAN
    /\ loginShell \in {"fish", "other"}
    /\ verified = "none"
    /\ returncodes = [brew |-> -1, chsh |-> -1]
    /\ config = NoFile
    /\ fishDir = TRUE
    /\ FishIdle
    /\ MiseIdle

NextMain ==
    \/ install_xcode_clt /\ UNCHANGED <<envVars, runVars, nvimVars, fishVars, miseVars>>
    \/ install_homebrew /\ UNCHANGED <<envVars, runVars, nvimVars, fishVars, miseVars>>
    \/ create_config_structure /\ UNCHANGED <<envVars, runVars, nvimVars, fishVars, miseVars>>
    \/ MainAfterRequired /\ UNCHANGED <<envVars, runVars, nvimVars, fishVars, miseVars>>
    \/ MainCallCreateSymlinks /\ UNCHANGED <<envVars, runVars, nvimVars, fishVars, miseVars>>
    \/ CheckSource /\ UNCHANGED <<envVars, runVars, nvimVars, mainVars, fishVars, miseVars>>
    \/ RemoveExisting /\ UNCHANGED <<envVars, runVars, nvimVars, mainVars, fishVars, miseVars>>
    \/ MakeParent /\ UNCHANGED <<envVars, runVars, nvimVars, mainVars, fishVars, miseVars>>
    \/ CreateSymlink /\ UNCHANGED <<envVars, runVars, nvimVars, mainVars, fishVars, miseVars>>
    \/ ReturnSymlinks /\ UNCHANGED <<envVars, runVars, nvimVars, mainVars, fishVars, miseVars>>
    \/ MainAfterSymlinks /\ UNCHANGED <<envVars, runVars, nvimVars, fishVars, miseVars>>
    \/ install_brewfile /\ UNCHANGED <<envVars, runVars, nvimVars, fishVars, miseVars>>
    \/ MainAfterBrewfile /\ UNCHANGED <<envVars, runVars, nvimVars, fishVars, miseVars>>
    \/ setup_fish_shell /\ UNCHANGED <<envVars, runVars, nvimVars, fishVars, miseVars>>
    \/ verify_installation /\ UNCHANGED <<envVars, runVars, nvimVars, fishVars, miseVars>>
    \/ MainFinish /\ UNCHANGED <<envVars, runVars, nvimVars, fishVars, miseVars>>

SpecMain == InitMain /\ [][NextMain]_vars

\* --- one call of create_symlinks during which one filesystem call of one
\* mapping fails with an operating-system error
FaultCalls == {"unlink", "rename", "mkdir", "symlink"}

InitFaults ==
    /\ program = "create_symlinks, one failing call"
    /\ NvimIdle
    /\ faults \in {{f} : f \in FaultCalls \X Rels}
    /\ elsewhere = File("other")
    /\ rcArgs = << >>
    /\ rcResult = [kind |-> "none", value |-> << >>]
    /\ srcExists \in [Rels -> BOOLEAN]
    /\ dst \in {d \in [Rels -> UNION {DstStates(r) : r \in Rels}] :
                   \A r \in Rels : d[r] \in DstStates(r)}
    /\ bak \in {b \in [Rels -> UNION {BakStates(r) : r \in Rels}] :
                   \A r \in Rels : b[r] \in BakStates(r)}
    /\ configDir \in BOOLEAN
    /\ FsConsistent
    /\ LinksIdle
    /\ config = NoFile
    /\ fishDir = TRUE
    /\ FishIdle
    /\ MiseIdle
    /\ MainIdle

DriverFaults ==
    /\ program = "create_symlinks, one failing call"
    /\ linkPc = "idle"
    /\ EnterCreateSymlinks

NextFaults ==
    \/ DriverFaults /\ UNCHANGED <<envVars, runVars, nvimVars, mainVars, fishVars, miseVars>>
    \/ CheckSource /\ UNCHANGED <<envVars, runVars, nvimVars, mainVars, fishVars, miseVars>>
    \/ RemoveExisting /\ UNCHANGED <<envVars, runVars, nvimVars, mainVars, fishVars, miseVars>>
    \/ MakeParent /\ UNCHANGED <<envVars, runVars, nvimVars, mainVars, fishVars, miseVars>>
    \/ CreateSymlink /\ UNCHANGED <<envVars, runVars, nvimVars, mainVars, fishVars, miseVars>>
    \/ ReturnSymlinks /\ UNCHANGED <<envVars, runVars, nvimVars, mainVars, fishVars, miseVars>>

SpecFaults == InitFaults /\ [][NextFaults]_vars

\* --- one call of run_command with every kind of argument and command
Descriptions == {"", "Running"}
ReturnCodes == {-9, 0, 1, 2, 127}
Outputs == {<< >>, <<"text">>}

InitRun ==
    /\ program = "run_command"
    /\ NvimIdle
    /\ faults = {}
    /\ elsewhere = File("other")
    /\ rcArgs \in [description : Descriptions, check : BOOLEAN,
                    started : BOOLEAN, returncode : ReturnCodes,
                    stdout : Outputs, stderr : Outputs]
    /\ rcResult = [kind |-> "none", value |-> << >>]
    /\ LinksUnused
    /\ config = NoFile
    /\ fishDir = TRUE
    /\ FishIdle
    /\ MiseIdle
    /\ MainIdle

NextRun == CallRunCommand

SpecRun == InitRun /\ [][NextRun]_vars

\* --- one run of setup_astronvim.py on every state of the nvim path
NvimStates == {Absent, Dir("user"), File("user"), Symlink(Elsewhere),
               Symlink(Nowhere)}
NvimBakStates == {Absent, Dir("old"), File("old")}

InitNvim ==
    /\ program = "setup_astronvim.py"
    /\ EnvIdle
    /\ nvimPc = "confirm"
    /\ nvimYes \in BOOLEAN
    /\ nvimAnswer = "none"
    /\ nvim \in NvimStates
    /\ nvimBak \in NvimBakStates
    /\ srcUser \in BOOLEAN
    /\ nvimCmds = << >>
    /\ nvimSteps = << >>
    /\ nvimExit = -1
    /\ nvimStart = [nvim |-> nvim, nvimBak |-> nvimBak]
    /\ LinksUnused
    /\ config = NoFile
    /\ fishDir = TRUE
    /\ FishIdle
    /\ MiseIdle
    /\ MainIdle

NextNvim ==
    \/ NvimConfirm /\ UNCHANGED <<envVars, runVars, linkVars, fishVars, miseVars, mainVars>>
    \/ backup_existing /\ UNCHANGED <<envVars, runVars, linkVars, fishVars, miseVars, mainVars>>
    \/ clone_astronvim /\ UNCHANGED <<envVars, runVars, linkVars, fishVars, miseVars, mainVars>>
    \/ install_user_config /\ UNCHANGED <<envVars, runVars, linkVars, fishVars, miseVars, mainVars>>

SpecNvim == InitNvim /\ [][NextNvim]_vars

\* --- the two scripts that ask for confirmation
InitPrompt == InitMise \/ InitNvim

NextPrompt == NextMise \/ NextNvim

SpecPrompt == InitPrompt /\ [][NextPrompt]_vars

\* --- any of the programs
Init == InitLinks \/ InitFish \/ InitMise \/ InitMain \/ InitFaults \/ InitRun
        \/ InitNvim

Next == NextLinks \/ NextFish \/ NextMise \/ NextMain \/ NextFaults \/ NextRun
        \/ NextNvim

Spec == Init /\ [][Next]_vars

\* every external action returns and the operator answers every prompt
FairSpecMain == SpecMain /\ WF_vars(NextMain)

\* ------------------------------------------------- claims: create_symlinks
HasOp(name, rel) == \E k \in 1..Len(ops) : ops[k] = <<name, rel>>

Foreign(e) == e.kind \in {"file", "dir"}

\* C1: a call of create_symlinks that follows another call on the same
\* mappings returns with the filesystem it started from (the one the call
\* before it left) and has renamed nothing to a ".backup" path.
C1_SecondRunChangesNothing ==
    (linkPc = "returned" /\ runs >= 2)
        => /\ FS = fsAtCall
           /\ \A rel \in Rels : ~HasOp("rename", rel)

\* the second call has returned after the first one backed up a file
C1_Witness ==
    /\ linkPc = "returned"
    /\ runs = 2
    /\ \E rel \in Rels :
          /\ fsStart.dst[rel] = File("user")
          /\ fsStart.bak[rel] = Absent
          /\ bak[rel] = File("user")
          /\ dst[rel] = Symlink(Resolved(rel))
          /\ HasOp("unlink", rel)
          /\ HasOp("symlink", rel)

\* C2: a target that held foreign content has a "<target>.backup" entry
\* after every call, and an entry at "<target>.backup" is never renamed
\* over, modified or removed by a later step.
C2_OneBackupKept ==
    /\ [](\A rel \in Rels :
            (linkPc = "returned" /\ Foreign(fsStart.dst[rel]) /\ srcExists[rel])
                => bak[rel] # Absent)
    /\ [][\A rel \in Rels : bak[rel] # Absent => bak'[rel] = bak[rel]]_vars

\* C3: foreign content that leaves the target path is at "<target>.backup"
\* afterwards.
C3_ForeignNeverDeleted ==
    [][\A rel \in Rels :
          (Foreign(dst[rel]) /\ dst'[rel] # dst[rel]) => bak'[rel] = dst[rel]]_vars

\* C7: a mapping whose source is missing has no effect on its target, its
\* backup path or its parent directory, and the loop still reaches every
\* mapping: each one with a source ends as a symlink or as a reported error.
C7_MissingSourceSkipped ==
    /\ \A rel \in Rels :
          ~srcExists[rel]
              => /\ dst[rel] = fsAtCall.dst[rel]
                 /\ bak[rel] = fsAtCall.bak[rel]
                 /\ \A k \in 1..Len(ops) : ops[k][2] # rel
    /\ (\A rel \in Rels : ~srcExists[rel]) => FS = fsAtCall
    /\ linkPc = "returned"
          => /\ visited = symlinks
             /\ \A rel \in Rels :
                   srcExists[rel] => (dst[rel] = Symlink(Resolved(rel)) \/ ~success)

\* the first mapping has no source and keeps its directory, the second one
\* was linked
C7_Witness ==
    /\ linkPc = "returned"
    /\ ~srcExists[symlinks[1]]
    /\ dst[symlinks[1]] = Dir("user")
    /\ bak[symlinks[1]] = Absent
    /\ srcExists[symlinks[2]]
    /\ fsAtCall.dst[symlinks[2]] = Absent
    /\ dst[symlinks[2]] = Symlink(Resolved(symlinks[2]))
    /\ success

\* --------------------------------------------- claims: update_fish_config
Count(text, tok) == Cardinality({i \in 1..Len(text) : text[i] = tok})

\* exactly one begin marker, exactly one end marker, begin before end
OnePair(text) ==
    /\ Count(text, MISE_BLOCK_BEGIN) = 1
    /\ Count(text, MISE_BLOCK_END) = 1
    /\ Find(text, MISE_BLOCK_BEGIN) < Find(text, MISE_BLOCK_END)

NoMarker(text) ==
    Count(text, MISE_BLOCK_BEGIN) = 0 /\ Count(text, MISE_BLOCK_END) = 0

\* C4: the second of two calls leaves the file byte-identical to what the
\* first call left, whatever the file was before the first call.
C4_SecondCallSameBytes == fishCalls = 2 => config = configPrev

\* C5: a file that was absent, without markers or with one marker pair has
\* exactly one marker pair, begin before end, after every call.
C5_ExactlyOnePair ==
    (fishCalls >= 1 /\ (~config0.exists \/ NoMarker(config0.text) \/ OnePair(config0.text)))
        => (config.exists /\ OnePair(config.text))

\* the block of a file with text around it has been replaced, and a file
\* without markers has been appended to and then replaced
C5_Witness ==
    /\ fishCalls = 2
    /\ \/ /\ OnePair(config0.text)
          /\ Head(config0.text) = "x"
          /\ config0.text[Len(config0.text)] = "x"
       \/ /\ config0.exists
          /\ NoMarker(config0.text)
          /\ Len(config0.text) >= 2
    /\ config # config0

BothMarkers(text) ==
    Contains(text, MISE_BLOCK_BEGIN) /\ Contains(text, MISE_BLOCK_END)

\* the part of text that starts at its first token other than a newline
AfterBlankLines(text) ==
    LET solid == {i \in 1..Len(text) : text[i] # "n"}
    IN  IF solid = {} THEN << >>
        ELSE SubSeq(text, CHOOSE i \in solid : \A j \in solid : i <= j, Len(text))

Steps == <<"install_xcode_clt", "install_homebrew", "create_config_structure",
           "create_symlinks", "install_brewfile", "setup_fish_shell",
           "verify_installation">>

RequiredSteps == {"install_xcode_clt", "install_homebrew", "create_config_structure"}
OptionalSteps == {"create_symlinks", "install_brewfile", "setup_fish_shell"}

FailedAt(k) == k <= Len(executed) /\ ~executed[k][2]

\* C8: once a required step has returned False no other step is called
\* (create_symlinks is not even entered), main ends with 1, and what the
\* earlier steps installed or created stays.
C8_RequiredFailureStops ==
    /\ [](\A k \in 1..Len(executed) :
            (executed[k][1] \in RequiredSteps /\ ~executed[k][2])
                => /\ k = Len(executed)
                   /\ runs = 0 /\ linkPc = "idle" /\ ops = << >>
                   /\ verified = "none"
                   /\ mainPc \in {"after1", "after2", "after3", "done"}
                   /\ (mainPc = "done" => exitCode = 1))
    /\ [][/\ (cltInstalled => cltInstalled')
           /\ (brewInstalled => brewInstalled')
           /\ (configDir => configDir')
           /\ SubSeq(executed', 1, Len(executed)) = executed]_vars

\* install_homebrew failed after install_xcode_clt had installed the tools
C8_Witness ==
    /\ mainPc = "done"
    /\ exitCode = 1
    /\ executed = << <<"install_xcode_clt", TRUE>>, <<"install_homebrew", FALSE>> >>
    /\ cltInstalled
    /\ \E i \in 1..Len(log) :
          log[i] = <<"SUCCESS", "Xcode Command Line Tools installed successfully">>

\* the warning lines that report a failed optional step
StepWarnings(step) ==
    CASE step = "create_symlinks" ->
            {"Some symlinks failed to create, but continuing..."}
      [] step = "install_brewfile" ->
            {"Brewfile installation had issues, but continuing..."}
      [] step = "setup_fish_shell" ->
            {"Fish shell not installed", "Failed to setup fish shell",
             "Could not add fish to /etc/shells",
             "Failed to set fish as default shell"}
      [] OTHER -> {}

Reported(step) ==
    \E i \in 1..Len(log) :
        log[i][1] = "WARNING" /\ log[i][2] \in StepWarnings(step)

RequiredOk == Len(executed) >= 3 /\ \A k \in 1..3 : executed[k][2]

\* C9: the steps are called once each in the declared order; when the
\* required steps succeeded, a failed optional step is on the output as a
\* warning before the next step is called, the run ends with all seven
\* steps called and exit code 0, and such a run does reach its end.
C9_OptionalFailureContinues ==
    /\ [](/\ Len(executed) <= Len(Steps)
          /\ \A k \in 1..Len(executed) : executed[k][1] = Steps[k]
          /\ \A k \in 1..Len(executed) :
                (executed[k][1] \in OptionalSteps /\ ~executed[k][2]
                    /\ (Len(executed) > k \/ mainPc = "done"))
                    => Reported(executed[k][1])
          /\ (mainPc = "done" /\ RequiredOk)
                => (Len(executed) = Len(Steps) /\ exitCode = 0))
    /\ (RequiredOk /\ (FailedAt(4) \/ FailedAt(5) \/ FailedAt(6)))
           ~> (mainPc = "done" /\ exitCode = 0 /\ Len(executed) = Len(Steps))

\* a run in which all three optional steps failed has ended
C9_Witness ==
    /\ mainPc = "done"
    /\ exitCode = 0
    /\ Len(executed) = Len(Steps)
    /\ RequiredOk
    /\ FailedAt(4) /\ FailedAt(5) /\ FailedAt(6)

\* C10: at the end of setup.py and of setup_mise.py the exit code is 2 when
\* every step succeeded and verification failed, 0 only when verification
\* passed (or the operator declined the prompt), 1 only after a failed
\* required step or a missing mise.
C10_ExitCodes ==
    /\ mainPc = "done"
          => /\ ((\A k \in 1..6 : k <= Len(executed) /\ executed[k][2])
                    /\ verified = "fail") => exitCode = 2
             /\ exitCode = 0 => verified = "pass"
             /\ exitCode = 1 => \E k \in 1..3 : FailedAt(k)
    /\ misePc = "exited"
          => /\ miseOk = "fail" => miseExit = 2
             /\ miseExit = 0 => (miseOk = "pass" \/ (~yes /\ cmds = << >>))
             /\ miseExit = 1 => (miseOk = "none" /\ cmds = << >>)
             /\ miseExit \in {0, 1, 2}

\* ------------------------------------------------ claims on create_symlinks
\* the mapping did not end well in the current call: its source is missing
\* or its loop body raised
MappingFailed(rel) == ~srcExists[rel] \/ rel \in raised

\* C11: create_symlinks returns False if at least one mapping failed, a
\* mapping with a missing source counting as failed, and returns True only
\* when every mapping ended with its symlink in place
C11_FalseWhenAnyMappingFailed ==
    linkPc = "returned" =>
        /\ (\E rel \in Rels : MappingFailed(rel)) => ~success
        /\ success => \A rel \in Rels : /\ srcExists[rel]
                                        /\ dst[rel] = Symlink(Resolved(rel))

\* C12: when the target is a foreign occupant, file or directory, and
\* "<target>.backup" already exists, the occupant is removed, the symlink is
\* created at the target and the mapping is reported as successful
C12_OccupantReplaced ==
    \A rel \in Rels :
        (/\ linkPc = "returned"
         /\ srcExists[rel]
         /\ Foreign(fsAtCall.dst[rel])
         /\ Exists(fsAtCall.bak[rel]))
            => /\ dst[rel] = Symlink(Resolved(rel))
               /\ rel \notin raised

\* C13: a filesystem error raised while one mapping is processed does not
\* stop the batch: when create_symlinks returns, the for loop has reached
\* every mapping in order, and every mapping whose source exists and whose
\* own calls did not raise has its symlink pointing at its resolved source
C13_ErrorDoesNotStopBatch ==
    linkPc = "returned" =>
        /\ visited = symlinks
        /\ \A rel \in Rels :
              (srcExists[rel] /\ rel \notin raised)
                  => dst[rel] = Symlink(Resolved(rel))

\* an injected error failed the first mapping and the second mapping, whose
\* target was a user file, was backed up and linked afterwards
C13_Witness ==
    /\ linkPc = "returned"
    /\ symlinks[1] \in raised
    /\ \E call \in FaultCalls : Faulty(call, symlinks[1])
    /\ ~success
    /\ fsAtCall.dst[symlinks[2]] = File("user")
    /\ bak[symlinks[2]] = File("user")
    /\ dst[symlinks[2]] = Symlink(Resolved(symlinks[2]))

\* C15: a target that is already a symlink to the resolved source is left
\* alone: during the whole call it is never unlinked, re-created or absent,
\* and the mapping ends as a success
C15_MatchingLinkUntouched ==
    \A rel \in Rels :
        (/\ linkPc # "idle"
         /\ srcExists[rel]
         /\ fsAtCall.dst[rel] = Symlink(Resolved(rel)))
            => /\ dst[rel] = Symlink(Resolved(rel))
               /\ ~HasOp("unlink", rel)
               /\ ~HasOp("symlink", rel)
               /\ rel \notin raised

\* the entry is a symlink that does not point at the source of rel
StaleLink(e, rel) == e.kind = "symlink" /\ e.data # Resolved(rel)

\* C16: a target that is a symlink to something other than the desired
\* source, dangling or not, is unlinked and re-created pointing at the
\* resolved source; "<target>.backup" is neither created nor changed and what
\* the old symlink pointed at stays as it was
C16_StaleLinkReplaced ==
    \A rel \in Rels :
        (/\ linkPc = "returned"
         /\ srcExists[rel]
         /\ StaleLink(fsAtCall.dst[rel], rel))
            => /\ dst[rel] = Symlink(Resolved(rel))
               /\ HasOp("unlink", rel)
               /\ HasOp("symlink", rel)
               /\ ~HasOp("rename", rel)
               /\ bak[rel] = fsAtCall.bak[rel]
               /\ elsewhere = fsAtCall.elsewhere

\* a first call has replaced a live foreign link at one target, with no
\* backup beside it, and a dangling link at the other
C16_Witness ==
    /\ linkPc = "returned"
    /\ runs = 1
    /\ fsAtCall.dst[symlinks[1]] = Symlink(Elsewhere)
    /\ fsAtCall.bak[symlinks[1]] = Absent
    /\ fsAtCall.dst[symlinks[2]] = Symlink(Nowhere)
    /\ bak[symlinks[1]] = Absent
    /\ \A rel \in Rels : dst[rel] = Symlink(Resolved(rel))
    /\ elsewhere = File("other")

\* ------------------------------------------- claims on update_fish_config
\* the text ends with an empty line
EndsInBlankLine(text) ==
    \/ text = <<"n">>
    \/ /\ Len(text) >= 2
       /\ text[Len(text)] = "n"
       /\ text[Len(text) - 1] = "n"

\* what may stand between old content and an appended block so that exactly
\* one blank line separates them (at most one for an empty file)
BlankLineSeparators(text) ==
    IF text = << >> THEN {<< >>, <<"n">>}
    ELSE IF EndsInBlankLine(text) THEN {<< >>}
    ELSE IF endswith_nl(text) THEN {<<"n">>}
    ELSE {<<"n", "n">>}

\* C14: on an existing file without markers update_fish_config appends the
\* block after the unchanged old content with exactly one blank line in
\* between: a blank line is added when the file does not end in one, none
\* when it does, and an empty file gets at most one leading blank line
C14_OneBlankLineBeforeBlock ==
    (fishCalls >= 1 /\ configPrev.exists /\ NoMarker(configPrev.text))
        => \E sep \in BlankLineSeparators(configPrev.text) :
              config.text = configPrev.text \o sep \o MISE_BLOCK

\* ------------------------------------------------- claims on setup.py
\* main has called the step function and got value back
StepReturned(step, value) ==
    \E k \in 1..Len(executed) : executed[k] = <<step, value>>

\* C17: an optional step whose external tool exits non-zero returns False:
\* install_brewfile when "brew bundle install" exits non-zero and
\* setup_fish_shell when "chsh" exits non-zero
C17_ToolFailureDegrades ==
    /\ returncodes.brew > 0 => StepReturned("install_brewfile", FALSE)
    /\ returncodes.chsh > 0 => StepReturned("setup_fish_shell", FALSE)

\* C18: with check=False run_command returns the pair of exit code and
\* combined output for every exit code and never ends the process; with
\* check=True a zero exit returns the pair too, and only a non-zero exit ends
\* the process, with exit code 1 and after an ERROR line has been printed
C18_StrictModeOnlyExits ==
    (program = "run_command" /\ rcResult.kind # "none" /\ rcArgs.started)
        => LET a == rcArgs
               pair == <<a.returncode, a.stdout \o a.stderr>>
           IN  /\ ~a.check => rcResult = [kind |-> "returned", value |-> pair]
               /\ (a.check /\ a.returncode = 0)
                     => rcResult = [kind |-> "returned", value |-> pair]
               /\ (a.check /\ a.returncode # 0)
                     => /\ rcResult = [kind |-> "exit", value |-> <<1>>]
                        /\ log # << >>
                        /\ log[Len(log)] = <<"ERROR", "Failed to execute">>

\* a command that exited with 127 and wrote to both streams was run with
\* check=False and its code and output came back
C18_Witness ==
    /\ program = "run_command"
    /\ rcArgs.started /\ ~rcArgs.check
    /\ rcArgs.returncode = 127
    /\ rcResult = [kind |-> "returned", value |-> <<127, <<"text", "text">>>>]

\* C19: verify_installation prints one line for every probe of its list, in
\* order and whatever the earlier probes gave, changes neither the
\* filesystem nor what is installed nor the pipeline, and main returns 0
\* after it whatever its result
C19_VerifierObservesOnly ==
    /\ [][mainPc = "step7" =>
             /\ mainPc' = "after7"
             /\ Len(log') = Len(log) + Len(checks)
             /\ \A k \in 1..Len(checks) :
                    /\ log'[Len(log) + k][2] = checks[k]
                    /\ log'[Len(log) + k][1] \in {"SUCCESS", "WARNING"}
             /\ FS' = FS
             /\ srcExists' = srcExists
             /\ <<cltInstalled', brewInstalled', fishInstalled', loginShell'>>
                    = <<cltInstalled, brewInstalled, fishInstalled, loginShell>>
             /\ exitCode' = exitCode
             /\ SubSeq(executed', 1, Len(executed)) = executed]_vars
    /\ []((mainPc = "done" /\ verified # "none") => exitCode = 0)

\* main has returned 0 after a verification in which the Fish probe failed
\* and the probes after it were still evaluated
C19_Witness ==
    /\ mainPc = "done"
    /\ exitCode = 0
    /\ verified = "fail"
    /\ \E i \in 1..Len(log) :
          /\ log[i] = <<"WARNING", "Fish">>
          /\ i + 3 = Len(log)
          /\ log[i + 1] = <<"SUCCESS", "Git">>
          /\ log[i + 2] = <<"WARNING", "Starship">>
          /\ log[i + 3] = <<"SUCCESS", "Neovim">>

\* the lines with which a step function describes its own failure
FailureLines(step) ==
    CASE step = "install_xcode_clt" ->
            {<<"WARNING", "Xcode CLT installation could not be verified">>,
             <<"ERROR", "Failed to install Xcode Command Line Tools">>}
      [] step = "install_homebrew" ->
            {<<"ERROR", "Homebrew installation failed">>}
      [] step = "create_config_structure" ->
            {<<"ERROR", "Failed to create config directory">>}
      [] step = "create_symlinks" ->
            {<<"ERROR", "Failed to create symlink">>}
      [] step = "install_brewfile" ->
            {<<"WARNING", "Brewfile not found">>,
             <<"ERROR", "Failed to install Brewfile">>}
      [] step = "setup_fish_shell" ->
            {<<"WARNING", "Fish shell not installed">>,
             <<"WARNING", "Failed to setup fish shell">>,
             <<"WARNING", "Could not add fish to /etc/shells">>,
             <<"WARNING", "Failed to set fish as default shell">>}
      [] OTHER -> {<<"WARNING", checks[k]>> : k \in 1..Len(checks)}

\* C20: as soon as a step function has returned False, and so before main
\* aborts or continues, the output holds a WARNING or ERROR line of that step
\* describing the failure; a strict-mode command failure ends the process
\* with an ERROR line as the last output; a main that returns 1 has printed
\* its ERROR line
C20_FailurePrintedFirst ==
    /\ \A k \in 1..Len(executed) :
          ~executed[k][2]
              => \E i \in 1..Len(log) :
                    /\ log[i] \in FailureLines(executed[k][1])
                    /\ log[i][1] \in {"WARNING", "ERROR"}
    /\ (mainPc = "in4" /\ linkPc = "returned" /\ ~success)
          => \E i \in 1..Len(log) : log[i] \in FailureLines("create_symlinks")
    /\ (mainPc \in {"after1", "after2", "after3", "after5"} /\ ~ret)
          => log[Len(log)][1] \in {"WARNING", "ERROR"}
    /\ (mainPc = "done" /\ exitCode = 1)
          => log[Len(log)][1] = "ERROR"
    /\ rcResult.kind = "exit"
          => log[Len(log)][1] = "ERROR"

\* install_brewfile has returned False for a missing Brewfile, its WARNING
\* is the last line printed and main has not yet branched on the result
C20_Witness ==
    /\ mainPc = "after5"
    /\ ~ret
    /\ executed[Len(executed)] = <<"install_brewfile", FALSE>>
    /\ log[Len(log)] = <<"WARNING", "Brewfile not found">>
    /\ StepReturned("create_symlinks", FALSE)

\* ------------------------- claims on setup_mise.py and setup_astronvim.py
\* the operator was asked and typed something other than "y" or "Y"
Refused(ans) == ans \notin {"none", "y", "Y"}

\* C21: in both scripts an answer other than "y", in either case, ends the
\* process with exit code 0 with no external command started and no file or
\* directory changed; with --yes nobody is asked and the run goes on to its
\* first step
C21_DeclineChangesNothing ==
    /\ []((program = "setup_mise.py" /\ Refused(answer))
            => /\ ~yes
               /\ misePc = "exited" /\ miseExit = 0
               /\ cmds = << >>
               /\ fishCalls = 0 /\ config = config0)
    /\ []((program = "setup_astronvim.py" /\ Refused(nvimAnswer))
            => /\ ~nvimYes
               /\ nvimPc = "exited" /\ nvimExit = 0
               /\ nvimCmds = << >> /\ nvimSteps = << >>
               /\ [nvim |-> nvim, nvimBak |-> nvimBak] = nvimStart)
    /\ [](yes => answer = "none")
    /\ [](nvimYes => nvimAnswer = "none")
    /\ [][(misePc = "confirm" /\ yes) => misePc' = "ensure"]_vars
    /\ [][(nvimPc = "confirm" /\ nvimYes) => nvimPc' = "backup"]_vars
    /\ [][(misePc = "exited" /\ Refused(answer))
             => UNCHANGED <<cmds, config, fishDir>>]_vars
    /\ [][(nvimPc = "exited" /\ Refused(nvimAnswer))
             => UNCHANGED <<nvimCmds, nvim, nvimBak>>]_vars

\* setup_astronvim.py has ended after the operator typed "N" with a user
\* directory at the nvim path, which is still there
C21_Witness ==
    /\ program = "setup_astronvim.py"
    /\ nvimPc = "exited"
    /\ nvimExit = 0
    /\ nvimAnswer = "N"
    /\ nvim = Dir("user")
    /\ nvimBak = Absent
    /\ nvimCmds = << >>

\* the order in which main of setup_astronvim.py calls its steps
NvimOrder == <<"backup_existing", "clone_astronvim", "install_user_config">>

\* C22: main of setup_astronvim.py calls backup_existing, clone_astronvim
\* and install_user_config in this order and a failed step is the last one
\* called; the clone starts only when nothing exists at the nvim path,
\* install_user_config runs only after a successful clone, and a directory
\* that was at the nvim path is either still there or at the backup path,
\* which no step after backup_existing changes
C22_OrderedStepsKeepOriginal ==
    /\ [](/\ Len(nvimSteps) <= Len(NvimOrder)
          /\ \A k \in 1..Len(nvimSteps) :
                /\ nvimSteps[k][1] = NvimOrder[k]
                /\ ~nvimSteps[k][2]
                      => /\ k = Len(nvimSteps)
                         /\ nvimPc = "exited"
                         /\ nvimExit = 1)
    /\ [](nvimPc = "clone" => ~Exists(nvim))
    /\ [](nvimCmds # << >> => nvim # nvimStart.nvim \/ ~Exists(nvim))
    /\ []((\E k \in 1..Len(nvimSteps) : nvimSteps[k][1] = "install_user_config")
            => nvimSteps[2] = <<"clone_astronvim", TRUE>>)
    /\ [](nvimStart.nvim.kind = "dir"
            => \/ nvim = nvimStart.nvim /\ nvimBak = nvimStart.nvimBak
               \/ nvimBak = nvimStart.nvim)
    /\ [][(nvimPc \in {"clone", "install"}) => UNCHANGED nvimBak]_vars

\* the clone failed after the user's directory had been renamed to the
\* backup path: the run ended there and the directory is at the backup path
C22_Witness ==
    /\ nvimPc = "exited"
    /\ nvimExit = 1
    /\ nvimSteps = << <<"backup_existing", TRUE>>, <<"clone_astronvim", FALSE>> >>
    /\ nvimStart.nvim = Dir("user")
    /\ nvimBak = Dir("user")
    /\ nvim = Absent

====
